---- MODULE Spec2Model ----
(***************************************************************************)
(* metalsmith-link-checker (lib/index.js): one Node process that runs the  *)
(* plugin on a document set.  Strings are sequences of one-character       *)
(* strings, so that every formatting, normalisation and comparison of the  *)
(* code is computed on characters.                                         *)
(***************************************************************************)
EXTENDS Integers, Sequences, FiniteSets, TLC

VARIABLES
    files,             \* the metalsmith files object: <<[name, links]>> in key order
    options,           \* the merged plugin options
    validUrlCache,     \* lib/index.js:135, module scope: link -> result
    phase,             \* "idle" | "running" | "done" | "thrown": the current run
    runs,              \* number of runs started in this process
    filenamesAndLinks, \* the array handed to async.mapLimit
    task,              \* per array index: the validation of that occurrence
    mapLimit,          \* async.mapLimit's own counters for the current run
    doneCalls          \* arguments of the calls of done() in the current run

vars == <<files, options, validUrlCache, phase, runs, filenamesAndLinks,
          task, mapLimit, doneCalls>>

(***************************************************************************)
(* Bounds of the model.                                                    *)
(***************************************************************************)
\* largest input: 2 * attribute hits + options.attempts
\* + options.parallelism + number of ignore patterns
MaxSize == 7
\* runs of the plugin in one process
MaxRuns == 2
\* pieces a link of the lexical validators and of the local resolver is
\* built from
MaxTokens == 4

(***************************************************************************)
(* Values.                                                                 *)
(***************************************************************************)
\* JavaScript null and undefined; no character sequence equals them
Null == <<"null">>
Undefined == <<"undefined">>

\* "\n" and the printable ASCII characters but the grave accent, in
\* code-unit order
Ascii ==
    <<"\n", " ", "!", "\"", "#", "$", "%", "&", "'", "(", ")", "*", "+",
      ",", "-", ".", "/", "0", "1", "2", "3", "4", "5", "6", "7", "8", "9",
      ":", ";", "<", "=", ">", "?", "@", "A", "B", "C", "D", "E", "F", "G",
      "H", "I", "J", "K", "L", "M", "N", "O", "P", "Q", "R", "S", "T", "U",
      "V", "W", "X", "Y", "Z", "[", "\\", "]", "^", "_", "a", "b",
      "c", "d", "e", "f", "g", "h", "i", "j", "k", "l", "m", "n", "o", "p",
      "q", "r", "s", "t", "u", "v", "w", "x", "y", "z", "{", "|", "}", "~">>

CharCode(c) == CHOOSE i \in 1..Len(Ascii) : Ascii[i] = c

UpperLetters == {Ascii[i] : i \in 35..60}
LowerLetters == {Ascii[i] : i \in 66..91}
Letters == UpperLetters \cup LowerLetters
Digits == {Ascii[i] : i \in 18..27}

\* String.prototype.toLowerCase on one character
ToLower(c) == IF c \in UpperLetters THEN Ascii[CharCode(c) + 31] ELSE c

\* String.prototype.indexOf(c) + 1; 0 when c does not occur
IndexOf(s, c) ==
    IF \E i \in 1..Len(s) : s[i] = c
    THEN CHOOSE i \in 1..Len(s) : s[i] = c /\ \A j \in 1..(i - 1) : s[j] # c
    ELSE 0

\* String.prototype.lastIndexOf(c) + 1
LastIndexOf(s, c) ==
    IF \E i \in 1..Len(s) : s[i] = c
    THEN CHOOSE i \in 1..Len(s) :
             s[i] = c /\ \A j \in (i + 1)..Len(s) : s[j] # c
    ELSE 0

\* s.replace(/c.*$/, ""): cut s at the first c that no line break follows
\* ("." matches no line break and "$" only the end of s)
StripFrom(s, c) ==
    LET from == LastIndexOf(s, "\n") + 1
        k == IndexOf(SubSeq(s, from, Len(s)), c)
    IN  IF k = 0 THEN s ELSE SubSeq(s, 1, from + k - 2)

\* s contains p as a substring
Contains(s, p) ==
    \E i \in 1..(Len(s) - Len(p) + 1) : SubSeq(s, i, i + Len(p) - 1) = p

\* s ends with p
EndsWith(s, p) ==
    Len(s) >= Len(p) /\ SubSeq(s, Len(s) - Len(p) + 1, Len(s)) = p

\* a < b as JavaScript compares strings: by code units, a prefix first
RECURSIVE StrLess(_, _)
StrLess(a, b) ==
    IF b = <<>> THEN FALSE
    ELSE IF a = <<>> THEN TRUE
    ELSE IF Head(a) # Head(b) THEN CharCode(Head(a)) < CharCode(Head(b))
    ELSE StrLess(Tail(a), Tail(b))

\* Array.prototype.sort() without a comparator, on an array of strings
RECURSIVE Insert(_, _)
Insert(sorted, x) ==
    IF sorted = <<>> THEN <<x>>
    ELSE IF StrLess(x, Head(sorted)) THEN <<x>> \o sorted
    ELSE <<Head(sorted)>> \o Insert(Tail(sorted), x)

RECURSIVE Sort(_)
\* Array.prototype.sort leaving the array in the order of the pushes
SortKeepsOrder(arr) == arr

Sort(arr) ==
    IF arr = <<>> THEN <<>>
    ELSE Insert(Sort(SubSeq(arr, 1, Len(arr) - 1)), arr[Len(arr)])

\* Array.prototype.join(sep) on an array of strings
RECURSIVE Join(_, _)
Join(arr, sep) ==
    IF arr = <<>> THEN <<>>
    ELSE IF Len(arr) = 1 THEN arr[1]
    ELSE arr[1] \o sep \o Join(Tail(arr), sep)

\* String.prototype.split(c) for a one-character separator
RECURSIVE Split(_, _)
Split(s, c) ==
    IF IndexOf(s, c) = 0 THEN <<s>>
    ELSE <<SubSeq(s, 1, IndexOf(s, c) - 1)>>
             \o Split(SubSeq(s, IndexOf(s, c) + 1, Len(s)), c)

\* the decimal digits of a non-negative integer, as a template literal prints it
RECURSIVE Decimal(_)
Decimal(n) ==
    LET d == <<"0", "1", "2", "3", "4", "5", "6", "7", "8", "9">>[(n % 10) + 1]
    IN  IF n < 10 THEN <<d>> ELSE Decimal(n \div 10) \o <<d>>

\* JSON.stringify of a string: quoted, with " and \ escaped
RECURSIVE JsonEscape(_)
JsonEscape(s) ==
    IF s = <<>> THEN <<>>
    ELSE IF Head(s) \in {"\"", "\\"}
         THEN <<"\\", Head(s)>> \o JsonEscape(Tail(s))
         ELSE <<Head(s)>> \o JsonEscape(Tail(s))

JsonString(s) == <<"\"">> \o JsonEscape(s) \o <<"\"">>

(***************************************************************************)
(* The posix path module of Node, as lib/index.js uses it.                 *)
(***************************************************************************)
\* normalizeString: drop "" and ".", resolve ".." against the segments kept
RECURSIVE NormalizeSegments(_, _, _)
NormalizeSegments(segs, acc, allowAboveRoot) ==
    IF segs = <<>> THEN acc
    ELSE IF Head(segs) = <<>> \/ Head(segs) = <<".">>
         THEN NormalizeSegments(Tail(segs), acc, allowAboveRoot)
    ELSE IF Head(segs) = <<".", ".">>
         THEN IF acc # <<>> /\ acc[Len(acc)] # <<".", ".">>
              THEN NormalizeSegments(Tail(segs), SubSeq(acc, 1, Len(acc) - 1),
                                     allowAboveRoot)
              ELSE IF allowAboveRoot
                   THEN NormalizeSegments(Tail(segs), Append(acc, <<".",
                         ".">>),
                                          allowAboveRoot)
                   ELSE NormalizeSegments(Tail(segs), acc, allowAboveRoot)
    ELSE NormalizeSegments(Tail(segs), Append(acc, Head(segs)), allowAboveRoot)

\* path.normalize
PathNormalize(p) ==
    IF p = <<>> THEN <<".">>
    ELSE LET isAbsolute == p[1] = "/"
             trailingSeparator == p[Len(p)] = "/"
             body == Join(NormalizeSegments(Split(p, "/"), <<>>, ~isAbsolute),
                          <<"/">>)
         IN  IF body = <<>>
             THEN IF isAbsolute THEN <<"/">>
                  ELSE IF trailingSeparator THEN <<".", "/">> ELSE <<".">>
             ELSE (IF isAbsolute THEN <<"/">> ELSE <<>>) \o body
                      \o (IF trailingSeparator THEN <<"/">> ELSE <<>>)

\* path.join(a, b)
PathJoin(a, b) ==
    IF a = <<>> /\ b = <<>> THEN <<".">>
    ELSE IF a = <<>> THEN PathNormalize(b)
    ELSE IF b = <<>> THEN PathNormalize(a)
    ELSE PathNormalize(a \o <<"/">> \o b)

\* s without its trailing "/" characters, keeping the first character
RECURSIVE DropTrailingSlashes(_)
DropTrailingSlashes(s) ==
    IF Len(s) > 1 /\ s[Len(s)] = "/"
    THEN DropTrailingSlashes(SubSeq(s, 1, Len(s) - 1))
    ELSE s

\* path.dirname
PathDirname(p) ==
    IF p = <<>> THEN <<".">>
    ELSE LET q == DropTrailingSlashes(p)
             k == LastIndexOf(q, "/")
         IN  IF k = 0 THEN <<".">>
             ELSE IF DropTrailingSlashes(SubSeq(q, 1, k)) = <<"/">>
                  THEN IF k = 1 THEN <<"/">> ELSE <<"/", "/">>
             ELSE DropTrailingSlashes(SubSeq(q, 1, k))

\* the filename as the caller wrote it
NormalizeFilenameKeeps(filename) == filename

\* filename.replace(/[/\\]/g, "/")
NormalizeFilename(filename) ==
    [i \in 1..Len(filename) |->
        IF filename[i] = "\\" THEN "/" ELSE filename[i]]

(***************************************************************************)
(* urlParse: the protocol of new URL(input), or Undefined when the         *)
(* constructor throws (no scheme, or a special scheme without a host).     *)
(***************************************************************************)
SchemeChars == Letters \cup Digits \cup {"+", "-", "."}
SpecialSchemes == {<<"h", "t", "t", "p", ":">>, <<"h", "t", "t", "p", "s",
      ":">>, <<"f", "t", "p", ":">>, <<"w", "s", ":">>, <<"w", "s", "s", ":">>}

\* s without its leading "/" and "\" characters
RECURSIVE DropLeadingSlashes(_)
DropLeadingSlashes(s) ==
    IF s # <<>> /\ Head(s) \in {"/", "\\"}
    THEN DropLeadingSlashes(Tail(s))
    ELSE s

\* the URL parser's preprocessing: leading and trailing C0 controls and spaces
\* are stripped, then every tab and newline is removed
RECURSIVE TrimStart(_)
TrimStart(s) ==
    IF s # <<>> /\ Head(s) \in {" ", "\n"} THEN TrimStart(Tail(s)) ELSE s

RECURSIVE TrimEnd(_)
TrimEnd(s) ==
    IF s # <<>> /\ s[Len(s)] \in {" ", "\n"}
    THEN TrimEnd(SubSeq(s, 1, Len(s) - 1))
    ELSE s

RECURSIVE RemoveNewlines(_)
RemoveNewlines(s) ==
    LET k == IndexOf(s, "\n")
    IN  IF k = 0 THEN s
        ELSE SubSeq(s, 1, k - 1) \o RemoveNewlines(SubSeq(s, k + 1, Len(s)))

urlParse(input) ==
    LET url == RemoveNewlines(TrimEnd(TrimStart(input)))
        k == IndexOf(url, ":")
        protocol == [i \in 1..k |-> ToLower(url[i])]
        rest == DropLeadingSlashes(SubSeq(url, k + 1, Len(url)))
    IN  IF k < 2 \/ url[1] \notin Letters
           \/ \E i \in 2..(k - 1) : url[i] \notin SchemeChars
        THEN [protocol |-> Undefined]
        ELSE IF protocol \in SpecialSchemes
                /\ (rest = <<>> \/ Head(rest) \in {"?", "#"})
        THEN [protocol |-> Undefined]
        ELSE [protocol |-> protocol]

(***************************************************************************)
(* The lexical validators (lib/index.js:112-133, 209-255).  Each regular   *)
(* expression is computed on the characters.                               *)
(***************************************************************************)
StartsWith(s, p) == Len(s) >= Len(p) /\ SubSeq(s, 1, Len(p)) = p

\* s.replace(/ /g, "")
RECURSIVE RemoveSpaces(_)
RemoveSpaces(s) ==
    IF s = <<>> THEN <<>>
    ELSE IF Head(s) = " " THEN RemoveSpaces(Tail(s))
    ELSE <<Head(s)>> \o RemoveSpaces(Tail(s))

PhoneChars == Digits \cup {".", "+", "-"}

\* /^facetime:[^@]+@.+$/
MatchFacetimeEmail(link) ==
    /\ StartsWith(link, <<"f", "a", "c", "e", "t", "i", "m", "e", ":">>)
    /\ LET rest == SubSeq(link, 10, Len(link))
           k == IndexOf(rest, "@")
       IN  /\ k >= 2
           /\ Len(rest) >= k + 1
           /\ \A i \in (k + 1)..Len(rest) : rest[i] # "\n"

\* /^facetime:[0-9.+-]+$/
MatchFacetimePhone(link) ==
    /\ StartsWith(link, <<"f", "a", "c", "e", "t", "i", "m", "e", ":">>)
    /\ Len(link) >= 10
    /\ \A i \in 10..Len(link) : link[i] \in PhoneChars

validFacetime(link) ==
    IF link = <<"f", "a", "c", "e", "t", "i", "m", "e", ":">> THEN Null
    ELSE IF IndexOf(link, "@") = 0 /\ \A i \in 1..Len(link) : link[i] \notin Digits
    THEN <<"i", "n", "v", "a", "l", "i", "d">>
    ELSE IF IndexOf(link, "@") > 0
    THEN IF ~MatchFacetimeEmail(link) THEN <<"i", "n", "v", "a", "l", "i",
          "d", " ", "e", "m", "a", "i", "l", " ", "a", "d", "d", "r", "e",
                "s", "s">> ELSE Null
    ELSE IF IndexOf(link, " ") > 0 THEN <<"c", "o", "n", "t", "a", "i", "n",
          "s", " ", "a", " ", "s", "p", "a", "c", "e">>
    ELSE IF ~MatchFacetimePhone(link) THEN <<"i", "n", "v", "a", "l", "i",
          "d", " ", "p", "h", "o", "n", "e", " ", "n", "u", "m", "b", "e",
                "r">>
    ELSE Null

\* /^mailto:[^@]+/
MatchMailtoLocal(link) ==
    StartsWith(link, <<"m", "a", "i", "l", "t", "o",
          ":">>) /\ Len(link) >= 8 /\ link[8] # "@"

\* the domain pattern without the domain: /^mailto:[^@]+/
MatchMailtoDomainLoose(link) == MatchMailtoLocal(link)

\* /^mailto:[^@]+@[^?]+/
MatchMailtoDomain(link) ==
    /\ MatchMailtoLocal(link)
    /\ LET rest == SubSeq(link, 8, Len(link))
           k == IndexOf(rest, "@")
       IN  k >= 2 /\ Len(rest) >= k + 1 /\ rest[k + 1] # "?"

MailtoKeys == {<<"s", "u", "b", "j", "e", "c", "t">>, <<"c", "c">>, <<"b",
      "c", "c">>, <<"b", "o", "d", "y">>}

\* (subject|cc|bcc|body)=[^&]+ on a text without "&"
MatchMailtoPair(part) ==
    \E key \in MailtoKeys :
        StartsWith(part, key \o <<"=">>) /\ Len(part) > Len(key) + 1

\* /^mailto:[^@]+@[^?]+(\?(subject|cc|bcc|body)=[^&]+(&(subject|cc|bcc|body)=[^&]+)?)?$/
MatchMailtoFull(link) ==
    /\ MatchMailtoDomain(link)
    /\ LET rest == SubSeq(link, 8, Len(link))
           domain == SubSeq(rest, IndexOf(rest, "@") + 1, Len(rest))
           q == IndexOf(domain, "?")
           pairs == Split(SubSeq(domain, q + 1, Len(domain)), "&")
       IN  \/ q = 0
           \/ /\ Len(pairs) \in {1, 2}
              /\ \A j \in 1..Len(pairs) : MatchMailtoPair(pairs[j])

validMailto(link) ==
    IF ~MatchMailtoLocal(link) THEN <<"i", "n", "v", "a", "l", "i", "d",
          " ", "l", "o", "c", "a", "l", "-", "p", "a", "r", "t">>
    ELSE IF ~MatchMailtoDomain(link) THEN <<"i", "n", "v", "a", "l", "i",
          "d", " ", "d", "o", "m", "a", "i", "n">>
    ELSE IF ~MatchMailtoFull(link) THEN <<"i", "n", "v", "a", "l", "i", "d",
          " ", "q", "u", "e", "r", "y", " ", "p", "a", "r", "a", "m", "s">>
    ELSE Null

\* /^<scheme>([0-9.+-]+)?$/ on the link without its spaces
MatchPhoneLink(link, scheme) ==
    LET stripped == RemoveSpaces(link)
    IN  /\ StartsWith(stripped, scheme)
        /\ \A i \in (Len(scheme) + 1)..Len(stripped) : stripped[i] \in PhoneChars

validSms(link) ==
    IF ~MatchPhoneLink(link, <<"s", "m", "s", ":">>) THEN <<"i", "n", "v",
          "a", "l", "i", "d">>
    ELSE IF IndexOf(link, " ") > 0 THEN <<"c", "o", "n", "t", "a", "i", "n",
          "s", " ", "a", " ", "s", "p", "a", "c", "e">>
    ELSE Null

validTel(link) ==
    IF ~MatchPhoneLink(link, <<"t", "e", "l", ":">>) THEN <<"i", "n", "v",
          "a", "l", "i", "d">>
    ELSE IF IndexOf(link, " ") > 0 THEN <<"c", "o", "n", "t", "a", "i", "n",
          "s", " ", "a", " ", "s", "p", "a", "c", "e">>
    ELSE Null

(***************************************************************************)
(* validLocal (lib/index.js:264-296).  fileSet is normalizedFilenames.     *)
(***************************************************************************)
SelfReferences == {<<>>, <<".">>, <<".", "/">>}

\* the property names every object literal inherits from Object.prototype
ObjectPrototype ==
    {<<"c", "o", "n", "s", "t", "r", "u", "c", "t", "o", "r">>,
     <<"h", "a", "s", "O", "w", "n", "P", "r", "o", "p", "e", "r", "t", "y">>,
     <<"i", "s", "P", "r", "o", "t", "o", "t", "y", "p", "e", "O", "f">>,
     <<"p", "r", "o", "p", "e", "r", "t", "y", "I", "s", "E", "n", "u", "m",
           "e", "r", "a", "b", "l", "e">>,
     <<"t", "o", "L", "o", "c", "a", "l", "e", "S", "t", "r", "i", "n", "g">>,
     <<"t", "o", "S", "t", "r", "i", "n", "g">>,
     <<"v", "a", "l", "u", "e", "O", "f">>,
     <<"_", "_", "p", "r", "o", "t", "o", "_", "_">>,
     <<"_", "_", "d", "e", "f", "i", "n", "e", "G", "e", "t", "t", "e", "r",
           "_", "_">>,
     <<"_", "_", "d", "e", "f", "i", "n", "e", "S", "e", "t", "t", "e", "r",
           "_", "_">>,
     <<"_", "_", "l", "o", "o", "k", "u", "p", "G", "e", "t", "t", "e", "r",
           "_", "_">>,
     <<"_", "_", "l", "o", "o", "k", "u", "p", "S", "e", "t", "t", "e", "r",
           "_", "_">>}

\* (key in obj) for an object literal with the own keys obj
In(key, obj) == key \in obj \/ key \in ObjectPrototype

validLocal(fileSet, src, dest) ==
    LET stripped == StripFrom(StripFrom(dest, "#"), "?")
        linkPath == IF stripped # <<>> /\ stripped[1] = "/"
                    THEN SubSeq(stripped, 2, Len(stripped))
                    ELSE PathJoin(PathDirname(src), stripped)
    IN  \/ stripped \in SelfReferences
        \/ linkPath \in SelfReferences
        \/ In(linkPath, fileSet)
        \/ In(PathJoin(linkPath, <<"i", "n", "d", "e", "x", ".", "h", "t", "m",
              "l">>), fileSet)

(***************************************************************************)
(* Extraction, deduplication and ignore filtering (lib/index.js:54-93,     *)
(* 338-370).  A document is [name, links]: links are the non-empty values  *)
(* of the configured attributes in the order querySelectorAll yields them. *)
(***************************************************************************)
\* metalsmith.match("**/*.html", Object.keys(files))
MatchesHtmlPattern(name) == EndsWith(name, <<".", "h", "t", "m", "l">>)

RECURSIVE htmlLinks(_)
htmlLinks(fs) ==
    IF fs = <<>> THEN <<>>
    ELSE (IF MatchesHtmlPattern(Head(fs).name)
          THEN [j \in 1..Len(Head(fs).links) |->
                   [filename |-> NormalizeFilename(Head(fs).name),
                    link |-> Head(fs).links[j]]]
          ELSE <<>>) \o htmlLinks(Tail(fs))

normalizedFilenames(fs) == {NormalizeFilename(fs[j].name) : j \in 1..Len(fs)}

\* the key built from the link alone: JSON.stringify({link})
StringVersionLinkOnly(v) ==
    <<"{">> \o JsonString(<<"l", "i", "n", "k">>) \o <<":">>
        \o JsonString(v.link) \o <<"}">>

\* JSON.stringify({filename, link})
StringVersion(v) ==
    <<"{">> \o JsonString(<<"f", "i", "l", "e", "n", "a", "m",
          "e">>) \o <<":">> \o JsonString(v.filename) \o <<",">>
        \o JsonString(<<"l", "i", "n", "k">>) \o <<":">> \o JsonString(v.link) \o <<"}">>

\* the filter on duplicateDetection: keep the first of equal stringVersions
RECURSIVE DuplicateFilter(_, _)
DuplicateFilter(arr, duplicateDetection) ==
    IF arr = <<>> THEN <<>>
    ELSE IF StringVersion(Head(arr)) \in duplicateDetection
    THEN DuplicateFilter(Tail(arr), duplicateDetection)
    ELSE <<Head(arr)>>
             \o DuplicateFilter(Tail(arr),
                    duplicateDetection \cup {StringVersion(Head(arr))})

\* new RegExp(pattern).test(link) for a pattern of literal characters
RegExpTest(pattern, link) == Contains(link, pattern)

\* the filter on options.ignore keeping every occurrence
IgnoreFilterKeepsAll(arr, ignore) == arr

RECURSIVE IgnoreFilter(_, _)
IgnoreFilter(arr, ignore) ==
    IF arr = <<>> THEN <<>>
    ELSE IF \E j \in 1..Len(ignore) : RegExpTest(ignore[j], Head(arr).link)
    THEN IgnoreFilter(Tail(arr), ignore)
    ELSE <<Head(arr)>> \o IgnoreFilter(Tail(arr), ignore)

\* the occurrences of a run before the shuffle
Survivors(fs, ignore) == IgnoreFilter(DuplicateFilter(htmlLinks(fs), {}), ignore)

\* arr without its element at index k
RemoveAt(arr, k) == SubSeq(arr, 1, k - 1) \o SubSeq(arr, k + 1, Len(arr))

\* arr.sort(() => Math.random() - 0.5): some rearrangement of arr
RECURSIVE Shuffles(_)
Shuffles(arr) ==
    IF arr = <<>> THEN {<<>>}
    ELSE UNION {{<<arr[k]>> \o rest : rest \in Shuffles(RemoveAt(arr, k))} :
                   k \in 1..Len(arr)}

(***************************************************************************)
(* One run: async.mapLimit over the occurrences, validUrl and the report.  *)
(* The operators below work on a record s of the fields a handler can      *)
(* reach: [files, list, cache, task, ml, phase, doneCalls].                *)
(***************************************************************************)
\* a task before mapLimit has taken it; reqs counts the requests of the
\* task that were issued and have not ended
WaitingTask ==
    [st |-> "waiting", attempt |-> 0, method |-> "HEAD", delays |-> <<>>,
     result |-> Undefined, calls |-> 0, reqs |-> 0]

\* a task whose callback has been called calls times, last with result
DoneTask(result, calls) ==
    [st |-> "done", attempt |-> 0, method |-> "HEAD", delays |-> <<>>,
     result |-> result, calls |-> calls, reqs |-> 0]

EmptyCache == [link \in {} |-> Null]

CachePut(cache, link, result) ==
    [l \in DOMAIN cache \cup {link} |-> IF l = link THEN result ELSE cache[l]]

\* JavaScript truthiness of a validation result
Truthy(result) == result \notin {Null, Undefined, <<>>}

\* RetryDelay without the cap of Math.min: 100 * 2 ** attempt
RetryDelayUncapped(attempt) == 100 * 2 ^ attempt

\* Math.min(1000, 100 * 2 ** attempt)
RetryDelay(attempt) ==
    IF 100 * 2 ^ attempt < 1000 THEN 100 * 2 ^ attempt ELSE 1000

\* the array mapLimit hands to its final callback
Results(s) ==
    [j \in 1..Len(s.list) |->
        [filename |-> s.list[j].filename, link |-> s.list[j].link,
         result |-> s.task[j].result]]

\* result.filter(r => r.result)
RECURSIVE BrokenOf(_)
BrokenOf(result) ==
    IF result = <<>> THEN <<>>
    ELSE IF Truthy(Head(result).result)
    THEN <<Head(result)>> \o BrokenOf(Tail(result))
    ELSE BrokenOf(Tail(result))

\* the lines pushed for one filename, in push order
RECURSIVE LinkErrors(_, _)
LinkErrors(broken, filename) ==
    IF broken = <<>> THEN <<>>
    ELSE IF Head(broken).filename = filename
    THEN <<Head(broken).link \o <<" ", "(">> \o Head(broken).result \o <<")">>>>
             \o LinkErrors(Tail(broken), filename)
    ELSE LinkErrors(Tail(broken), filename)

\* Object.keys(filenamesToLinkErrors): filenames in order of first push
RECURSIVE ErrorFilenames(_, _)
ErrorFilenames(broken, seen) ==
    IF broken = <<>> THEN <<>>
    ELSE IF Head(broken).filename \in seen
    THEN ErrorFilenames(Tail(broken), seen)
    ELSE <<Head(broken).filename>>
             \o ErrorFilenames(Tail(broken), seen \cup {Head(broken).filename})

\* one block of the report
ReportBlock(broken, filename) ==
    LET sorted == Sort(LinkErrors(broken, filename))
    IN  filename \o <<":", "\n">>
            \o Join([j \in 1..Len(sorted) |-> <<" ",
                  " ">> \o sorted[j]], <<"\n">>)

\* the text handed to done() when links are broken
ReportMessage(broken) ==
    LET names == Sort(ErrorFilenames(broken, {}))
    IN  <<"B", "r", "o", "k", "e", "n", " ", "l", "i", "n", "k", "s", " ",
          "f", "o", "u", "n", "d", ":", "\n", "\n">>
            \o Join([j \in 1..Len(names) |-> ReportBlock(broken, names[j])],
                    <<"\n", "\n">>)

\* the final callback of mapLimit (lib/index.js:414-448); err is always null
FinalCallback(s) ==
    LET broken == BrokenOf(Results(s))
    IN  [s EXCEPT !.phase = "done",
                  !.doneCalls =
                      IF ErrorFilenames(broken, {}) # <<>>
                      THEN @ \o <<ReportMessage(broken), Undefined>>
                      ELSE @ \o <<Undefined>>]

RECURSIVE ReplenishLoop(_)
RECURSIVE callbackResult(_, _, _)

\* async eachOfLimit, replenish()
Replenish(s) == ReplenishLoop([s EXCEPT !.ml.looping = TRUE])

\* callbackResult with the end of the run tested as running < 0
callbackResultNeverFinal(s, i, result) ==
    LET s1 == [s EXCEPT !.task[i] = [DoneTask(result, s.task[i].calls + 1)
                                         EXCEPT !.reqs = s.task[i].reqs],
                        !.ml.running = @ - 1]
    IN  IF s1.ml.done /\ s1.ml.running < 0 THEN FinalCallback(s1)
        ELSE IF ~s1.ml.looping THEN Replenish(s1)
        ELSE s1

\* callback(null, cached or terminal result): lib/index.js:379-380, then the
\* iterateeCallback of async eachOfLimit
callbackResult(s, i, result) ==
    LET s1 == [s EXCEPT !.task[i] = [DoneTask(result, s.task[i].calls + 1)
                                         EXCEPT !.reqs = s.task[i].reqs],
                        !.ml.running = @ - 1]
    IN  IF s1.ml.done /\ s1.ml.running <= 0 THEN FinalCallback(s1)
        ELSE IF ~s1.ml.looping THEN Replenish(s1)
        ELSE s1

\* link.slice(0, 5) === "https" ? https : http, as the protocol the chosen
\* module serves
library(link) ==
    IF SubSeq(link, 1, IF Len(link) < 5 THEN Len(link) ELSE 5) = <<"h", "t", "t", "p", "s">>
    THEN <<"h", "t", "t", "p", "s", ":">>
    ELSE <<"h", "t", "t", "p", ":">>

\* library.request(link, ...) up to req.end() (lib/index.js:160-202).  The
\* request function of a module throws ERR_INVALID_PROTOCOL when the protocol
\* of new URL(link) is not the one it serves; the exception leaves the
\* iteratee, mapLimit and the plugin function or the handler the event loop
\* runs, and nothing of the run is executed after it.
request(s, i, attempt, method, delays) ==
    IF urlParse(s.list[i].link).protocol # library(s.list[i].link)
    THEN [s EXCEPT !.phase = "thrown", !.task[i].st = "thrown"]
    ELSE [s EXCEPT !.task[i] =
             [st |-> "request", attempt |-> attempt, method |-> method,
              delays |-> delays, result |-> s.task[i].result,
              calls |-> s.task[i].calls, reqs |-> s.task[i].reqs + 1]]

\* validUrl reading the cache only on the first request of a validation
validUrlCacheFirstOnly(s, i, attempt, method, delays) ==
    LET link == s.list[i].link
    IN  IF link \in DOMAIN s.cache /\ attempt = 1 /\ method = "HEAD"
        THEN callbackResult(s, i, s.cache[link])
        ELSE request(s, i, attempt, method, delays)

\* validUrl without the return after the cached callback: the request is
\* issued all the same
validUrlNoReturn(s, i, attempt, method, delays) ==
    LET link == s.list[i].link
        s1 == IF link \in DOMAIN s.cache
              THEN callbackResult(s, i, s.cache[link])
              ELSE s
    IN  request(s1, i, attempt, method, delays)

\* validUrl (lib/index.js:141-203)
validUrl(s, i, attempt, method, delays) ==
    LET link == s.list[i].link
    IN  IF link \in DOMAIN s.cache
        THEN callbackResult(s, i, s.cache[link])
        ELSE request(s, i, attempt, method, delays)

\* cacheAndCallback (lib/index.js:142-153) in the closure of task i
cacheAndCallback(s, i, result) ==
    IF Truthy(result) /\ s.task[i].attempt <= options.attempts
    THEN [s EXCEPT !.task[i].st = "timer",
                   !.task[i].delays = Append(@, RetryDelay(s.task[i].attempt))]
    ELSE callbackResult(
             [s EXCEPT !.cache = CachePut(@, s.list[i].link, result)],
             i, result)

ProtocolValidators ==
    {<<"f", "a", "c", "e", "t", "i", "m", "e", ":">>, <<"f", "a", "c", "e",
          "t", "i", "m", "e", "-", "a", "u", "d", "i", "o", ":">>, <<"h",
                "t", "t", "p", ":">>, <<"h", "t", "t", "p", "s",
                      ":">>, <<"m", "a", "i", "l", "t", "o", ":">>, <<"s",
                            "m", "s", ":">>,
     <<"t", "e", "l", ":">>}

\* protocolValidators[protocol](link) for the synchronous validators
SyncValidator(protocol, link) ==
    CASE protocol \in {<<"f", "a", "c", "e", "t", "i", "m", "e",
          ":">>, <<"f", "a", "c", "e", "t", "i", "m", "e", "-", "a", "u",
                "d", "i", "o", ":">>} -> validFacetime(link)
      [] protocol = <<"m", "a", "i", "l", "t", "o", ":">> -> validMailto(link)
      [] protocol = <<"s", "m", "s", ":">> -> validSms(link)
      [] protocol = <<"t", "e", "l", ":">> -> validTel(link)

\* the iteratee handing links of unknown schemes to the local resolver
IterateeLocalForUnknown(s, i) ==
    LET filename == s.list[i].filename
        link == s.list[i].link
        linkUrl == urlParse(link)
    IN  IF linkUrl.protocol \in ProtocolValidators
        THEN IF linkUrl.protocol \in {<<"h", "t", "t", "p", ":">>, <<"h", "t", "t", "p", "s", ":">>}
             THEN validUrl(s, i, 1, "HEAD", <<>>)
             ELSE callbackResult(s, i, SyncValidator(linkUrl.protocol, link))
        ELSE callbackResult(s, i,
                 IF validLocal(normalizedFilenames(s.files), filename, link)
                 THEN Null ELSE <<"n", "o", "t", " ", "f", "o", "u", "n", "d">>)

\* the iteratee of mapLimit (lib/index.js:378-413)
Iteratee(s, i) ==
    LET filename == s.list[i].filename
        link == s.list[i].link
        linkUrl == urlParse(link)
    IN  IF linkUrl.protocol # Undefined
        THEN IF linkUrl.protocol \in ProtocolValidators
             THEN IF linkUrl.protocol \in {<<"h", "t", "t", "p",
                   ":">>, <<"h", "t", "t", "p", "s", ":">>}
                  THEN validUrl(s, i, 1, "HEAD", <<>>)
                  ELSE callbackResult(s, i, SyncValidator(linkUrl.protocol, link))
             ELSE callbackResult(s, i, Null)
        ELSE callbackResult(s, i,
                 IF validLocal(normalizedFilenames(s.files), filename, link)
                 THEN Null ELSE <<"n", "o", "t", " ", "f", "o", "u", "n",
                       "d">>)

\* the while loop of replenish() with running <= limit
ReplenishLoopOneMore(s) ==
    IF s.phase = "thrown" THEN s
    ELSE IF s.ml.running <= options.parallelism /\ ~s.ml.done
    THEN IF s.ml.next > Len(s.list)
         THEN IF s.ml.running <= 0
              THEN FinalCallback([s EXCEPT !.ml.done = TRUE])
              ELSE [s EXCEPT !.ml.done = TRUE]
         ELSE ReplenishLoop(
                  Iteratee([s EXCEPT !.ml.running = @ + 1, !.ml.next = @ + 1],
                           s.ml.next))
    ELSE [s EXCEPT !.ml.looping = FALSE]

\* the while loop of replenish()
ReplenishLoop(s) ==
    IF s.phase = "thrown" THEN s
    ELSE IF s.ml.running < options.parallelism /\ ~s.ml.done
    THEN IF s.ml.next > Len(s.list)
         THEN IF s.ml.running <= 0
              THEN FinalCallback([s EXCEPT !.ml.done = TRUE])
              ELSE [s EXCEPT !.ml.done = TRUE]
         ELSE ReplenishLoop(
                  Iteratee([s EXCEPT !.ml.running = @ + 1, !.ml.next = @ + 1],
                           s.ml.next))
    ELSE [s EXCEPT !.ml.looping = FALSE]

\* the response callback without the return after the GET fallback
OnResponseNoReturn(s, i, statusCode) ==
    IF statusCode = 405 /\ s.task[i].method # "GET"
    THEN LET t == validUrl(s, i, s.task[i].attempt, "GET", s.task[i].delays)
         IN  IF t.task[i].st = "request"
             THEN cacheAndCallback(t, i, <<"H", "T", "T", "P", " ">> \o Decimal(statusCode))
             ELSE t
    ELSE IF statusCode >= 400 /\ statusCode <= 599
    THEN cacheAndCallback(s, i, <<"H", "T", "T", "P", " ">> \o Decimal(statusCode))
    ELSE cacheAndCallback(s, i, Null)

\* the response callback of the request of task i (lib/index.js:171-185)
OnResponse(s, i, statusCode) ==
    IF statusCode = 405 /\ s.task[i].method # "GET"
    THEN validUrl(s, i, s.task[i].attempt, "GET", s.task[i].delays)
    ELSE IF statusCode >= 400 /\ statusCode <= 599
    THEN cacheAndCallback(s, i, <<"H", "T", "T", "P",
          " ">> \o Decimal(statusCode))
    ELSE cacheAndCallback(s, i, Null)

\* the "error" handler with the GET fallback counted as a new attempt
OnErrorNextAttempt(s, i, message) ==
    IF s.task[i].method # "GET"
    THEN validUrl(s, i, s.task[i].attempt + 1, "GET", s.task[i].delays)
    ELSE cacheAndCallback(s, i, message)

\* the "error" handler of the request of task i (lib/index.js:188-196)
OnError(s, i, message) ==
    IF s.task[i].method # "GET"
    THEN validUrl(s, i, s.task[i].attempt, "GET", s.task[i].delays)
    ELSE cacheAndCallback(s, i, message)

\* the setTimeout callback with the retry starting over with HEAD
OnTimerHead(s, i) ==
    validUrl(s, i, s.task[i].attempt + 1, "HEAD", s.task[i].delays)

\* the setTimeout callback of task i (lib/index.js:145-147)
OnTimer(s, i) ==
    validUrl(s, i, s.task[i].attempt + 1, s.task[i].method, s.task[i].delays)

(***************************************************************************)
(* The state machine.                                                      *)
(***************************************************************************)
Current ==
    [files |-> files, list |-> filenamesAndLinks, cache |-> validUrlCache,
     task |-> task, ml |-> mapLimit, phase |-> phase, doneCalls |-> doneCalls]

\* the variables take the fields of s; options and runs stay
Becomes(s) ==
    /\ files' = s.files
    /\ filenamesAndLinks' = s.list
    /\ validUrlCache' = s.cache
    /\ task' = s.task
    /\ mapLimit' = s.ml
    /\ phase' = s.phase
    /\ doneCalls' = s.doneCalls

\* the documents, the links and the options the model draws its inputs from
FileA == <<"a", ".", "h", "t", "m", "l">>
FileB == <<"d", "/", "b", ".", "h", "t", "m", "l">>
RemoteLink == <<"h", "t", "t", "p", ":", "/", "/", "x">>
LocalLink == <<"a", ".", "h", "t", "m", "l">>
SecureLink == <<"h", "t", "t", "p", "s", ":", "/", "/", "y">>
Links == {RemoteLink, SecureLink, LocalLink}
IgnorePattern == <<"/", "/">>
IgnoreChoices == {<<>>, <<IgnorePattern>>}
StatusCodes == {200, 404, 405}
\* the message of the Error that req.destroy() and a closed connection raise
TimeoutMessage == <<"s", "o", "c", "k", "e", "t", " ", "h", "a", "n", "g",
      " ", "u", "p">>

\* err.message of a transport error: a text, or the empty string of an Error
\* built without a message
ErrorMessages == {TimeoutMessage, <<>>}

LinkSeqs(n) == UNION {[1..k -> Links] : k \in 0..n}

Init ==
    /\ \E la, lb \in LinkSeqs(MaxSize \div 2) :
           files = <<[name |-> FileA, links |-> la],
                     [name |-> FileB, links |-> lb]>>
    /\ \E attempts \in 0..MaxSize, parallelism \in 1..MaxSize,
          ignore \in IgnoreChoices :
           options = [attempts |-> attempts, parallelism |-> parallelism,
                      ignore |-> ignore]
    /\ 2 * (Len(files[1].links) + Len(files[2].links)) + options.attempts
           + options.parallelism + Len(options.ignore) <= MaxSize
    /\ validUrlCache = EmptyCache
    /\ phase = "idle"
    /\ runs = 0
    /\ filenamesAndLinks = <<>>
    /\ task = <<>>
    /\ mapLimit = [next |-> 1, running |-> 0, done |-> FALSE, looping |-> FALSE]
    /\ doneCalls = <<>>

\* the run re-keys the documents in forward-slash form
NewRunRenamingKeys(list) ==
    [files |-> [j \in 1..Len(files) |->
                   [files[j] EXCEPT !.name = NormalizeFilename(@)]],
     list |-> list, cache |-> validUrlCache,
     task |-> [j \in 1..Len(list) |-> WaitingTask],
     ml |-> [next |-> 1, running |-> 0, done |-> FALSE, looping |-> FALSE],
     phase |-> "running", doneCalls |-> <<>>]

\* the plugin function up to the call of async.mapLimit (lib/index.js:337-374)
NewRun(list) ==
    [files |-> files, list |-> list, cache |-> validUrlCache,
     task |-> [j \in 1..Len(list) |-> WaitingTask],
     ml |-> [next |-> 1, running |-> 0, done |-> FALSE, looping |-> FALSE],
     phase |-> "running", doneCalls |-> <<>>]

\* the plugin function is called (lib/index.js:337-449)
Run ==
    /\ phase \in {"idle", "done"}
    /\ runs < MaxRuns
    /\ runs' = runs + 1
    /\ \E list \in Shuffles(Survivors(files, options.ignore)) :
           Becomes(Replenish(NewRun(list)))
    /\ UNCHANGED options

\* the request of task i has emitted its response or its error
Ended(s, i) == [s EXCEPT !.task[i].reqs = @ - 1]

InFlight(i) == phase = "running" /\ i \in DOMAIN task /\ task[i].st = "request"

\* the request of task i gets a response
Response(i, statusCode) ==
    /\ InFlight(i)
    /\ Becomes(OnResponse(Ended(Current, i), i, statusCode))
    /\ UNCHANGED <<options, runs>>

\* the request of task i fails in the transport
Error(i, message) ==
    /\ InFlight(i)
    /\ Becomes(OnError(Ended(Current, i), i, message))
    /\ UNCHANGED <<options, runs>>

\* the request of task i times out: req.destroy() raises its "error"
Timeout(i) ==
    /\ InFlight(i)
    /\ Becomes(OnError(Ended(Current, i), i, TimeoutMessage))
    /\ UNCHANGED <<options, runs>>

\* the retry timer of task i fires
Timer(i) ==
    /\ phase = "running" /\ i \in DOMAIN task /\ task[i].st = "timer"
    /\ Becomes(OnTimer(Current, i))
    /\ UNCHANGED <<options, runs>>

Next ==
    \/ Run
    \/ \E i \in 1..(MaxSize \div 2), statusCode \in StatusCodes : Response(i, statusCode)
    \/ \E i \in 1..(MaxSize \div 2), message \in ErrorMessages : Error(i, message)
    \/ \E i \in 1..(MaxSize \div 2) : Timeout(i)
    \/ \E i \in 1..(MaxSize \div 2) : Timer(i)

Spec == Init /\ [][Next]_vars

\* the event loop eventually runs a pending response, error, timeout or timer
Event ==
    \/ \E i \in 1..(MaxSize \div 2), statusCode \in StatusCodes :
           Response(i, statusCode)
    \/ \E i \in 1..(MaxSize \div 2), message \in ErrorMessages :
           Error(i, message)
    \/ \E i \in 1..(MaxSize \div 2) : Timeout(i)
    \/ \E i \in 1..(MaxSize \div 2) : Timer(i)

\* a request is in flight or a retry timer is set: Event can take a step
EventPending ==
    phase = "running"
        /\ \E i \in DOMAIN task : task[i].st \in {"request", "timer"}

\* weak fairness of Event, with ENABLED <<Event>>_vars written as the state
\* predicate EventPending it is equivalent to (every handler changes its task)
Fairness == []<>(~EventPending) \/ []<><<Event>>_vars

LiveSpec == Init /\ [][Next]_vars /\ Fairness

(***************************************************************************)
(* The same program on documents with links of every class: remote, with   *)
(* an upper-case scheme, with a scheme no validator serves, for the        *)
(* lexical validators, and local.                                          *)
(***************************************************************************)
UpperCaseLink == <<"H", "T", "T", "P", "S", ":", "/", "/", "y">>
OtherSchemeLink == <<"f", "t", "p", ":", "/", "/", "x">>
TelLink == <<"t", "e", "l", ":", "1", " ", "2">>
MailtoLink == <<"m", "a", "i", "l", "t", "o", ":", "a", "@", "b">>
FragmentLink == <<"#", "t", "o", "p">>
WideLinks ==
    {RemoteLink, UpperCaseLink, OtherSchemeLink, TelLink, MailtoLink,
     LocalLink, FragmentLink}

WideInit ==
    /\ \E lb \in UNION {[1..k -> WideLinks] : k \in 0..(MaxSize \div 2)} :
           files = <<[name |-> FileA, links |-> <<>>],
                     [name |-> FileB, links |-> lb]>>
    /\ \E attempts \in 0..MaxSize, parallelism \in 1..MaxSize,
          ignore \in IgnoreChoices :
           options = [attempts |-> attempts, parallelism |-> parallelism,
                      ignore |-> ignore]
    /\ 2 * Len(files[2].links) + options.attempts
           + options.parallelism + Len(options.ignore) <= MaxSize
    /\ validUrlCache = EmptyCache
    /\ phase = "idle"
    /\ runs = 0
    /\ filenamesAndLinks = <<>>
    /\ task = <<>>
    /\ mapLimit = [next |-> 1, running |-> 0, done |-> FALSE, looping |-> FALSE]
    /\ doneCalls = <<>>

WideSpec == WideInit /\ [][Next]_vars

(***************************************************************************)
(* Vocabulary of the properties.                                           *)
(***************************************************************************)
Occ == 1..(MaxSize \div 2)

LinkOf(i) == filenamesAndLinks[i].link

Pending(i) == i \in DOMAIN task /\ task[i].st \in {"request", "timer"}

\* a step in which a request is issued for occurrence i
NewRequest(i) ==
    /\ i \in DOMAIN task'
    /\ task'[i].st = "request"
    /\ (i \notin DOMAIN task \/ task[i] # task'[i])

\* a HEAD request of occurrence i gets 405, an error or a timeout
HeadFallback(i) ==
    /\ i \in DOMAIN task
    /\ task[i].method = "HEAD"
    /\ \/ Response(i, 405)
       \/ \E message \in ErrorMessages : Error(i, message)
       \/ Timeout(i)

\* a GET request of occurrence i gets 405, an error or a timeout
GetFailure(i) ==
    /\ i \in DOMAIN task
    /\ task[i].method = "GET"
    /\ \/ Response(i, 405)
       \/ \E message \in ErrorMessages : Error(i, message)
       \/ Timeout(i)

\* a request of occurrence i ends in a failure that no fallback follows
CycleFailure(i) ==
    \/ GetFailure(i)
    \/ i \in DOMAIN task /\ Response(i, 404)

AnyBroken == \E i \in DOMAIN task : Truthy(task[i].result)

ReportedSuccess == \E k \in DOMAIN doneCalls : doneCalls[k] = Undefined

(***************************************************************************)
(* C1.  A run reports success (done is called with no error argument) if   *)
(* and only if no validated occurrence has a non-null result.              *)
(***************************************************************************)
C1_SuccessIffNoneBroken ==
    phase = "done" => (ReportedSuccess <=> ~AnyBroken)

(***************************************************************************)
(* C2.  Once validUrlCache holds an entry for a URL, no step issues a      *)
(* request for that URL; a retry timer and a HEAD-to-GET fallback of an    *)
(* occurrence of that URL deliver the cached outcome instead.              *)
(***************************************************************************)
C2_NoRequestOnceCached ==
    [][\A i \in Occ :
          /\ NewRequest(i) =>
                 /\ filenamesAndLinks'[i].link \notin DOMAIN validUrlCache
                 /\ filenamesAndLinks'[i].link \notin DOMAIN validUrlCache'
          /\ (Timer(i) \/ HeadFallback(i)) /\ LinkOf(i) \in DOMAIN validUrlCache
                 => /\ task'[i] = DoneTask(validUrlCache[LinkOf(i)], 1)
                    /\ validUrlCache' = validUrlCache]_vars

C2_Witness ==
    \E i \in Occ :
        /\ phase = "running"
        /\ Pending(i)
        /\ task[i].attempt >= 2
        /\ LinkOf(i) \in DOMAIN validUrlCache

(***************************************************************************)
(* C3.  A validation runs its first cycle and at most options.attempts     *)
(* retry cycles; the k-th retry is delayed by min(1000, 100 * 2^k) ms, so  *)
(* the delays never decrease and never exceed 1000; a failure that ends    *)
(* the last cycle is written to the cache and handed to the callback.      *)
(***************************************************************************)
C3_DelaysBounded ==
    \A i \in DOMAIN task :
        /\ Len(task[i].delays) <= options.attempts
        /\ Pending(i) => task[i].attempt = Len(task[i].delays) + 1
                             - (IF task[i].st = "timer" THEN 1 ELSE 0)
        /\ \A k \in 1..Len(task[i].delays) :
               /\ task[i].delays[k] <= 1000
               /\ task[i].delays[k] <= 100 * 2 ^ k
               /\ task[i].delays[k] \in {1000, 100 * 2 ^ k}
               /\ k > 1 => task[i].delays[k - 1] <= task[i].delays[k]

\* the texts a failed request hands to cacheAndCallback
FailureTexts ==
    ErrorMessages \cup {TimeoutMessage, <<"H", "T", "T", "P", " ", "4", "0", "4">>,
                         <<"H", "T", "T", "P", " ", "4", "0", "5">>}

\* a request of occurrence i ends in the failure text that no fallback follows
FailsWith(i, text) ==
    /\ i \in DOMAIN task
    /\ task[i].st = "request"
    /\ \/ text = <<"H", "T", "T", "P", " ", "4", "0", "4">> /\ Response(i, 404)
       \/ /\ task[i].method = "GET"
          /\ \/ text = <<"H", "T", "T", "P", " ", "4", "0", "5">>
                    /\ Response(i, 405)
             \/ text \in ErrorMessages /\ Error(i, text)
             \/ text = TimeoutMessage /\ Timeout(i)

\* C3: at most options.attempts retries, each delayed by
\* min(1000, 100 * 2^attempt); a failure is retried while retries are left
\* and its text is not empty, and the failure that ends the last cycle is
\* cached and handed to the callback once
C3_RetriesThenCached ==
    /\ []C3_DelaysBounded
    /\ [][\A i \in Occ : \A text \in FailureTexts :
             FailsWith(i, text) =>
                 IF Truthy(text) /\ task[i].attempt <= options.attempts
                 THEN /\ task'[i] = [task[i] EXCEPT
                                        !.st = "timer",
                                        !.reqs = 0,
                                        !.delays = Append(@, task'[i].delays[
                                                       task[i].attempt])]
                      /\ validUrlCache' = validUrlCache
                 ELSE /\ Truthy(text) => task[i].attempt = options.attempts + 1
                      /\ task'[i].st = "done"
                      /\ task'[i].result = text
                      /\ task'[i].calls = 1
                      /\ validUrlCache'[LinkOf(i)] = text]_vars

C3_Witness ==
    \E i \in Occ :
        /\ Pending(i)
        /\ task[i].st = "request"
        /\ options.attempts >= 4
        /\ Len(task[i].delays) = options.attempts
        /\ task[i].delays[4] = 1000

(***************************************************************************)
(* C4.  When every request ends and every timer fires, every run ends:     *)
(* each occurrence gets its outcome, each validated URL is in the cache    *)
(* and done has been called.                                               *)
(***************************************************************************)
RunEnded ==
    /\ phase = "done"
    /\ doneCalls # <<>>
    /\ \A i \in DOMAIN task :
           /\ task[i].st = "done"
           /\ task[i].result # Undefined
           /\ urlParse(LinkOf(i)).protocol \in {<<"h", "t", "t", "p",
                 ":">>, <<"h", "t", "t", "p", "s", ":">>}
                  => /\ LinkOf(i) \in DOMAIN validUrlCache
                     /\ validUrlCache[LinkOf(i)] # Undefined

\* C4: under fairness of the event handlers a running run always ends
C4_EveryRunEnds == (phase = "running") ~> RunEnded

C4_Witness ==
    /\ RunEnded
    /\ options.attempts >= 1
    /\ \E i \in DOMAIN task : task[i].result = <<"H", "T", "T", "P", " ",
          "4", "0", "5">>

(***************************************************************************)
(* C5.  A HEAD request that gets 405, an error or a timeout is followed    *)
(* by exactly one GET request at the same attempt, with no delay; a GET    *)
(* request that gets 405 or an error ends the cycle with a failure.        *)
(***************************************************************************)
\* C5 as stated: the GET request is issued whatever the cache holds
C5_FallbackAlwaysRequests ==
    [][\A i \in Occ :
          /\ HeadFallback(i) => task'[i] = [task[i] EXCEPT !.method = "GET"]
          /\ GetFailure(i) => task'[i].st # "request"]_vars

\* C5 as amended: after a failed HEAD request one GET request is issued at
\* the same attempt unless the URL is cached by then, and the cached outcome
\* is delivered if it is; a failed GET request ends the cycle
C5_FallbackUnlessCached ==
    [][\A i \in Occ :
          /\ HeadFallback(i) =>
                 IF LinkOf(i) \notin DOMAIN validUrlCache
                 THEN task'[i] = [task[i] EXCEPT !.method = "GET"]
                 ELSE task'[i] = DoneTask(validUrlCache[LinkOf(i)], 1)
          /\ GetFailure(i) =>
                 /\ task'[i].st \in {"timer", "done"}
                 /\ task'[i].st = "timer" =>
                        /\ task'[i].attempt = task[i].attempt
                        /\ task'[i].method = "GET"
                 /\ task'[i].st = "done" =>
                        /\ task'[i].result \in FailureTexts
                        /\ validUrlCache'[LinkOf(i)] = task'[i].result]_vars

C5_Witness ==
    \E i \in Occ :
        /\ phase = "running"
        /\ Pending(i)
        /\ task[i].st = "request"
        /\ task[i].method = "HEAD"
        /\ LinkOf(i) \in DOMAIN validUrlCache

(***************************************************************************)
(* C6.  The first request of every attempt cycle is a HEAD request.        *)
(***************************************************************************)
\* C6 as stated: a retry timer always issues a HEAD request
C6_RetryStartsWithHead ==
    [][\A i \in Occ :
          Timer(i) /\ NewRequest(i) => task'[i].method = "HEAD"]_vars

\* C6 as amended: the first cycle starts with HEAD, a retry cycle starts with
\* the method of the request whose failure scheduled it
C6_RetryKeepsMethod ==
    [][\A i \in Occ :
          /\ NewRequest(i) /\ (i \notin DOMAIN task \/ task[i].st \notin {"request", "timer"})
                 => task'[i].method = "HEAD" /\ task'[i].attempt = 1
          /\ CycleFailure(i) /\ task'[i].st = "timer"
                 => task'[i].method = task[i].method
          /\ Timer(i) /\ NewRequest(i)
                 => /\ task'[i].method = task[i].method
                    /\ task'[i].attempt = task[i].attempt + 1]_vars

C6_Witness ==
    \E i \in Occ :
        /\ Pending(i)
        /\ task[i].st = "request"
        /\ task[i].method = "GET"
        /\ task[i].attempt >= 2

(***************************************************************************)
(* C7.  At the start of every run the URL cache holds no entries.          *)
(***************************************************************************)
C7_CacheEmptyAtRunStart ==
    [][runs' # runs => DOMAIN validUrlCache = {}]_vars

(***************************************************************************)
(* C8.  For every occurrence that survives deduplication and ignore        *)
(* filtering the callback is called exactly once, with null or a           *)
(* diagnostic string.                                                      *)
(***************************************************************************)
\* b is a rearrangement of a
IsShuffleOf(a, b) ==
    /\ Len(a) = Len(b)
    /\ \A v \in {a[j] : j \in 1..Len(a)} \cup {b[j] : j \in 1..Len(b)} :
           Cardinality({j \in 1..Len(a) : a[j] = v})
               = Cardinality({j \in 1..Len(b) : b[j] = v})

\* C8: each surviving occurrence is one task, its callback is called exactly
\* once, with null or a diagnostic string
C8_CallbackExactlyOnce ==
    /\ phase # "idle" =>
           /\ IsShuffleOf(Survivors(files, options.ignore), filenamesAndLinks)
           /\ DOMAIN task = DOMAIN filenamesAndLinks
    /\ \A i \in DOMAIN task :
           /\ task[i].calls <= 1
           /\ task[i].calls = 1 <=> task[i].st = "done"
           /\ task[i].st = "done" => task[i].result # Undefined
    /\ phase = "done" => \A i \in DOMAIN task : task[i].calls = 1

C8_Witness ==
    /\ phase = "done"
    /\ options.attempts >= 1
    /\ \E i, j \in DOMAIN task :
           /\ i # j
           /\ LinkOf(i) = RemoteLink /\ LinkOf(j) = RemoteLink
           /\ task[i].calls = 1 /\ task[j].calls = 1
           /\ Truthy(task[i].result)

(***************************************************************************)
(* C9.  The occurrences whose validation has started and whose callback    *)
(* has not been called are never more than options.parallelism.            *)
(***************************************************************************)
Started == {i \in DOMAIN task : task[i].st \in {"request", "timer", "thrown"}}

\* C9: the started and unfinished occurrences are the running count of
\* mapLimit and never more than options.parallelism
C9_AtMostParallelism ==
    /\ Cardinality(Started) <= options.parallelism
    /\ mapLimit.running = Cardinality(Started)

C9_Witness ==
    /\ phase = "running"
    /\ Cardinality(Started) = options.parallelism
    /\ \E i \in DOMAIN task : task[i].st = "waiting"

(***************************************************************************)
(* C10.  Occurrences with the same document and the same link are          *)
(* validated once and reported at most once; the same link in different    *)
(* documents is validated in each.                                         *)
(***************************************************************************)
Extracted == {htmlLinks(files)[j] : j \in 1..Len(htmlLinks(files))}

Ignored(v) ==
    \E j \in 1..Len(options.ignore) : RegExpTest(options.ignore[j], v.link)

\* the lines of the report handed to done(), none when done() got no report
ReportLines ==
    IF doneCalls # <<>> /\ doneCalls[1] # Undefined
    THEN Split(doneCalls[1], "\n")
    ELSE <<>>

\* C10: each extracted pair that is not ignored is one task with one
\* callback, and no block of the report holds a line twice
C10_OnePerDocumentAndLink ==
    phase # "idle" =>
        /\ \A v \in Extracted :
               Cardinality({i \in DOMAIN filenamesAndLinks :
                               filenamesAndLinks[i] = v})
                   = IF Ignored(v) THEN 0 ELSE 1
        /\ phase = "done" =>
               \A v \in Extracted :
                   Cardinality({i \in DOMAIN task :
                                   filenamesAndLinks[i] = v /\ task[i].calls = 1})
                       = IF Ignored(v) THEN 0 ELSE 1
        /\ LET lines == ReportLines
           IN  \A a, b \in 1..Len(lines) :
                   a < b /\ lines[a] = lines[b] /\ lines[a] # <<>>
                       => \E k \in (a + 1)..(b - 1) : lines[k] = <<>>

C10_Witness ==
    /\ phase = "done"
    /\ options.ignore = <<>>
    /\ Len(htmlLinks(files)) > Len(filenamesAndLinks)
    /\ \E i, j \in DOMAIN task :
           /\ i # j
           /\ LinkOf(i) = LinkOf(j)
           /\ Truthy(task[i].result) /\ Truthy(task[j].result)
    /\ Len(ReportLines) > 2


(***************************************************************************)
(* C4 and C8 on documents with links of every class (WideSpec).            *)
(***************************************************************************)
\* C4: a run that has started and has not called done has a request in
\* flight or a retry timer set, so that it goes on until it calls done
C4_RunNeverStuck == phase \notin {"idle", "done"} => EventPending

\* C8: when a run has stopped, the callback of every occurrence that
\* survived the filters has been called exactly once
C8_CalledOnceWhenRunStops ==
    phase \in {"done", "thrown"} => \A i \in DOMAIN task : task[i].calls = 1

(***************************************************************************)
(* C11.  An occurrence whose link matches an ignore pattern is never       *)
(* validated and never reported.                                           *)
(***************************************************************************)
\* C11: no occurrence handed to mapLimit, no entry of the URL cache and no
\* line of the report has a link that matches an ignore pattern
C11_IgnoredNeverValidated ==
    phase # "idle" =>
        /\ \A i \in DOMAIN filenamesAndLinks : ~Ignored(filenamesAndLinks[i])
        /\ \A i \in DOMAIN task : ~Ignored(filenamesAndLinks[i])
        /\ \A link \in DOMAIN validUrlCache : ~Ignored([link |-> link])
        /\ LET lines == ReportLines
           IN  \A v \in Extracted :
                   Ignored(v) =>
                       \A a \in 1..Len(lines) :
                           ~StartsWith(lines[a], <<" ",
                                 " ">> \o v.link \o <<" ">>)

C11_Witness ==
    /\ phase = "done"
    /\ options.ignore # <<>>
    /\ \E v \in Extracted : Ignored(v)
    /\ \E i \in DOMAIN task : Truthy(task[i].result)
    /\ Len(ReportLines) > 2


(***************************************************************************)
(* C12.  A validation failure is a result string, never an exception: the  *)
(* run validates every surviving occurrence and reports every failure.     *)
(***************************************************************************)
\* the line of occurrence i in the report
ReportLineOf(i) ==
    <<" ", " ">> \o LinkOf(i) \o <<" ", "(">> \o task[i].result \o <<")">>

\* C12: no validator throws, and a run that has stopped has a result for
\* every occurrence and a report line for every failure
C12_FailuresNeverAbort ==
    /\ phase # "thrown"
    /\ phase = "done" =>
           \A i \in DOMAIN task :
               /\ task[i].result = Null \/ Truthy(task[i].result)
               /\ Truthy(task[i].result) =>
                      \E a \in 1..Len(ReportLines) :
                          ReportLines[a] = ReportLineOf(i)


(***************************************************************************)
(* C13.  The report lists exactly the occurrences with a non-null result,  *)
(* each under its document, documents and lines in lexicographic order.    *)
(***************************************************************************)
\* line a of the report is the heading of a document
IsHeading(lines, a) == a > 2 /\ lines[a] # <<>> /\ lines[a - 1] = <<>>

\* line a of the report is the line of an occurrence
IsItem(lines, a) == a > 2 /\ lines[a] # <<>> /\ lines[a - 1] # <<>>

\* the heading over line a
HeadingOf(lines, a) ==
    lines[CHOOSE h \in 1..a :
              /\ IsHeading(lines, h)
              /\ \A k \in (h + 1)..a : ~IsHeading(lines, k)]

Broken == {i \in DOMAIN task : Truthy(task[i].result)}

NonNull == {i \in DOMAIN task : task[i].result # Null}

\* the report is the title, then one block per document of an occurrence in
\* listed, headings ascending, and in each block one line per occurrence of
\* the document in listed, lines ascending
ReportLists(listed) ==
        LET lines == ReportLines
            items == {a \in 1..Len(lines) : IsItem(lines, a)}
            heads == {a \in 1..Len(lines) : IsHeading(lines, a)}
        IN  /\ Len(lines) > 2
            /\ lines[1] = <<"B", "r", "o", "k", "e", "n", " ", "l", "i",
                  "n", "k", "s", " ", "f", "o", "u", "n", "d", ":">>
            /\ lines[2] = <<>>
            /\ lines[Len(lines)] # <<>>
            /\ \A a \in 2..Len(lines) : lines[a] = <<>> => lines[a - 1] # <<>>
            /\ {<<HeadingOf(lines, a), lines[a]>> : a \in items}
                   = {<<filenamesAndLinks[i].filename \o <<":">>,
                        ReportLineOf(i)>> : i \in listed}
            /\ Cardinality(items) = Cardinality(listed)
            /\ {lines[h] : h \in heads}
                   = {filenamesAndLinks[i].filename \o <<":">> : i \in listed}
            /\ \A g, h \in heads : g < h => StrLess(lines[g], lines[h])
            /\ \A a \in items :
                   a + 1 \in items => StrLess(lines[a], lines[a + 1])

\* C13: the report lists exactly the occurrences with a non-null result,
\* documents and lines in lexicographic order, so the text depends on the
\* results only, not on the order of dispatch or completion
C13_ReportListsNonNull == phase = "done" /\ NonNull # {} => ReportLists(NonNull)

\* the report lists exactly the occurrences with a result that is neither
\* null nor the empty string, documents and lines in lexicographic order
C13_ReportSorted == phase = "done" /\ Broken # {} => ReportLists(Broken)

C13_Witness ==
    /\ phase = "done"
    /\ \E i, j \in Broken :
           /\ i < j
           /\ StrLess(filenamesAndLinks[j].filename,
                      filenamesAndLinks[i].filename)
    /\ \E i, j \in Broken :
           /\ i < j
           /\ filenamesAndLinks[j].filename = filenamesAndLinks[i].filename
           /\ StrLess(ReportLineOf(j), ReportLineOf(i))


(***************************************************************************)
(* The program on one document with one link: the runs that apply the      *)
(* lexical validators and the local resolver to links built from pieces.   *)
(***************************************************************************)
RECURSIVE Flatten(_)
Flatten(pieces) ==
    IF pieces = <<>> THEN <<>> ELSE Head(pieces) \o Flatten(Tail(pieces))

\* the texts of at most MaxTokens pieces
Texts(pieces) ==
    {Flatten(seq) : seq \in UNION {[1..k -> pieces] : k \in 0..MaxTokens}}

\* documents fs, the default options.attempts, options.parallelism and
\* options.ignore, nothing run yet
OneRunInit(fs) ==
    /\ files = fs
    /\ options = [attempts |-> 3, parallelism |-> 100, ignore |-> <<>>]
    /\ validUrlCache = EmptyCache
    /\ phase = "idle"
    /\ runs = 0
    /\ filenamesAndLinks = <<>>
    /\ task = <<>>
    /\ mapLimit = [next |-> 1, running |-> 0, done |-> FALSE, looping |-> FALSE]
    /\ doneCalls = <<>>

MailtoPieces ==
    {<<"a">>, <<"@">>, <<"a", "@", "b">>, <<"?">>, <<"&">>, <<"c", "c", "=",
          "y">>, <<"s", "u", "b", "j", "e", "c", "t", "=", "x">>, <<"f",
                "o", "o", "=", "x">>}

\* the links of the examples and the links built from the pieces
MailtoLinks ==
    {<<"m", "a", "i", "l", "t", "o", ":", "a", "@", "b", ".", "c", "o",
          "m">>, <<"m", "a", "i", "l", "t", "o", ":", "a">>, <<"m", "a",
                "i", "l", "t", "o", ":", "a", "@", "b", "?", "s", "u", "b",
                      "j", "e", "c", "t", "=", "x", "&", "c", "c", "=", "y">>,
     <<"m", "a", "i", "l", "t", "o", ":", "a", "@", "b", "?", "f", "o", "o",
           "=", "x">>}
        \cup {<<"m", "a", "i", "l", "t", "o",
              ":">> \o text : text \in Texts(MailtoPieces)}

MailtoInit ==
    \E link \in MailtoLinks :
        OneRunInit(<<[name |-> FileA, links |-> <<link>>]>>)

MailtoSpec == MailtoInit /\ [][Run]_vars

(***************************************************************************)
(* C14.  The results of the mailto validator.                              *)
(***************************************************************************)
\* the link of the only occurrence and its result
TheLink == files[1].links[1]

TheResult == task[1].result

Validated == phase = "done" /\ Len(task) = 1

AfterScheme(link) == SubSeq(link, IndexOf(link, ":") + 1, Len(link))

\* the text after the first "@" of the link, up to its first "?"
MailtoDomain(link) ==
    LET rest == AfterScheme(link)
        tail == SubSeq(rest, IndexOf(rest, "@") + 1, Len(rest))
    IN  IF IndexOf(tail, "?") = 0 THEN tail
        ELSE SubSeq(tail, 1, IndexOf(tail, "?") - 1)

\* the text after the first "?" that follows the first "@" of the link
MailtoQuery(link) ==
    LET rest == AfterScheme(link)
        tail == SubSeq(rest, IndexOf(rest, "@") + 1, Len(rest))
    IN  SubSeq(tail, IndexOf(tail, "?") + 1, Len(tail))

HasMailtoQuery(link) ==
    LET rest == AfterScheme(link)
    IN  IndexOf(SubSeq(rest, IndexOf(rest, "@") + 1, Len(rest)), "?") > 0

\* one or two pairs key=value, key one of subject, cc, bcc, body and value
\* not empty, joined by "&"
InMailtoGrammar(query) ==
    LET amp == IndexOf(query, "&")
        IsPair(t) ==
            \E key \in {<<"s", "u", "b", "j", "e", "c", "t", "=">>, <<"c",
                  "c", "=">>, <<"b", "c", "c", "=">>, <<"b", "o", "d", "y",
                        "=">>} :
                /\ StartsWith(t, key)
                /\ Len(t) > Len(key)
                /\ IndexOf(t, "&") = 0
    IN  IF amp = 0 THEN IsPair(query)
        ELSE /\ IsPair(SubSeq(query, 1, amp - 1))
             /\ IsPair(SubSeq(query, amp + 1, Len(query)))

NoLocalPart(link) == AfterScheme(link) = <<>> \/ AfterScheme(link)[1] = "@"

LocalPieces ==
    {<<".">>, <<"/">>, <<".", ".">>, <<"a">>, <<"b", ".", "h", "t", "m",
          "l">>, <<"i", "n", "d", "e", "x", ".", "h", "t", "m",
                "l">>, <<"#", "x">>, <<"?", "q">>, <<"c", "o", "n", "s",
                      "t", "r", "u", "c", "t", "o", "r">>}

\* the links of the examples and the links built from the pieces
LocalLinks ==
    ({<<".", "/">>, <<".", ".", "/", "a">>, <<"/", "m", "i", "s", "s", "i",
          "n", "g">>} \cup Texts(LocalPieces)) \ {<<>>}

LocalInit ==
    \E link \in LocalLinks :
        OneRunInit(<<[name |-> <<"a", "/", "b", ".", "h", "t", "m",
              "l">>, links |-> <<link>>],
                     [name |-> <<"a", "/", "i", "n", "d", "e", "x", ".",
                           "h", "t", "m", "l">>, links |-> <<>>]>>)

LocalSpec == LocalInit /\ [][Run]_vars

(***************************************************************************)
(* C15.  The local resolver: a link is valid iff, its fragment and query   *)
(* stripped, it refers to the document itself or resolves to a document    *)
(* or to a directory with an index.html.                                   *)
(***************************************************************************)
DocumentKeys == {files[j].name : j \in 1..Len(files)}

\* the link without its fragment and then without its query
Remainder(link) ==
    LET noFragment == IF IndexOf(link, "#") = 0 THEN link
                      ELSE SubSeq(link, 1, IndexOf(link, "#") - 1)
    IN  IF IndexOf(noFragment, "?") = 0 THEN noFragment
        ELSE SubSeq(noFragment, 1, IndexOf(noFragment, "?") - 1)

\* the remainder without its leading "/" when root-relative, otherwise
\* joined to the directory of the source document
Resolved(src, link) ==
    IF Remainder(link) # <<>> /\ Head(Remainder(link)) = "/"
    THEN Tail(Remainder(link))
    ELSE PathJoin(PathDirname(src), Remainder(link))

\* C15: the result is null iff the remainder or the resolved path is
\* empty, "." or "./", or the resolved path or its index.html is a key of
\* the document set, and "not found" otherwise; the three examples
C15_LocalResolver ==
    Validated =>
        /\ TheResult =
               IF \/ Remainder(TheLink) \in {<<>>, <<".">>, <<".", "/">>}
                  \/ Resolved(files[1].name, TheLink) \in {<<>>, <<".">>, <<".", "/">>}
                  \/ Resolved(files[1].name, TheLink) \in DocumentKeys
                  \/ PathJoin(Resolved(files[1].name, TheLink), <<"i", "n",
                        "d", "e", "x", ".", "h", "t", "m", "l">>)
                         \in DocumentKeys
               THEN Null
               ELSE <<"n", "o", "t", " ", "f", "o", "u", "n", "d">>
        /\ TheLink \in {<<".", "/">>, <<".", ".", "/",
              "a">>} => TheResult = Null
        /\ TheLink = <<"/", "m", "i", "s", "s", "i", "n",
              "g">> => TheResult = <<"n", "o", "t", " ", "f", "o", "u", "n",
                    "d">>

\* the same without the links that resolve to a name every object has
C15_ExceptInheritedNames ==
    Resolved(files[1].name, TheLink) \notin ObjectPrototype
        => C15_LocalResolver


(***************************************************************************)
(* The program on documents whose keys are written with "/" or "\", with   *)
(* local links between them.                                               *)
(***************************************************************************)
SlashNames ==
    {<<"a", ".", "h", "t", "m", "l">>, <<"d", "/", "b", ".", "h", "t", "m",
          "l">>, <<"d", "\\", "b", ".", "h", "t", "m", "l">>, <<"d", "/",
                "e", "/", "c", ".", "h", "t", "m", "l">>, <<"d", "\\", "e",
                      "/", "c", ".", "h", "t", "m", "l">>,
     <<"d", "/", "e", "\\", "c", ".", "h", "t", "m", "l">>, <<"d", "\\",
           "e", "\\", "c", ".", "h", "t", "m", "l">>}

SlashLinks ==
    {<<"b", ".", "h", "t", "m", "l">>, <<"e", "/", "c", ".", "h", "t", "m",
          "l">>, <<".", ".", "/", "a", ".", "h", "t", "m", "l">>, <<"/",
                "d", "/", "b", ".", "h", "t", "m", "l">>, <<"x", ".", "h",
                      "t", "m", "l">>, <<"e", "\\", "c", ".", "h", "t", "m",
                            "l">>}

SlashInit ==
    \E n1, n2 \in SlashNames :
        \E links \in UNION {[1..k -> SlashLinks] : k \in 0..(MaxTokens \div 2)} :
            /\ NormalizeFilename(n1) # NormalizeFilename(n2)
            /\ OneRunInit(<<[name |-> n1, links |-> links],
                            [name |-> n2, links |-> <<>>]>>)

SlashSpec == SlashInit /\ [][Run]_vars

(***************************************************************************)
(* C16.  A run on keys written with "\" ends as the run on the same        *)
(* documents with keys written with "/".                                   *)
(***************************************************************************)
HasBackslash(text) == \E k \in 1..Len(text) : text[k] = "\\"

\* the same documents with every "\" of a key written "/"
ForwardSlashes(fs) ==
    [j \in 1..Len(fs) |->
        [fs[j] EXCEPT !.name =
            [k \in 1..Len(@) |-> IF @[k] = "\\" THEN "/" ELSE @[k]]]]

\* the calls of done() a run on the documents fs can end with
OutcomesOf(fs) ==
    {Replenish([NewRun(list) EXCEPT !.files = fs]).doneCalls :
        list \in Shuffles(Survivors(fs, options.ignore))}

\* C16: the runs on the documents and on the documents with forward-slash
\* keys end with the same calls of done(), and no document id in the
\* occurrences, in the lookup table or in the report holds a "\"
C16_SeparatorIndependent ==
    /\ OutcomesOf(files) = OutcomesOf(ForwardSlashes(files))
    /\ phase = "done" => doneCalls \in OutcomesOf(ForwardSlashes(files))
    /\ \A i \in DOMAIN filenamesAndLinks :
           ~HasBackslash(filenamesAndLinks[i].filename)
    /\ \A key \in normalizedFilenames(files) : ~HasBackslash(key)
    /\ LET lines == ReportLines
       IN  \A a \in 1..Len(lines) :
               IsHeading(lines, a) => ~HasBackslash(lines[a])

C16_Witness ==
    /\ phase = "done"
    /\ \A j \in 1..Len(files) : HasBackslash(files[j].name)
    /\ \E i \in DOMAIN task : task[i].result = Null
    /\ \E i \in DOMAIN task : Truthy(task[i].result)
    /\ \E a \in 1..Len(ReportLines) : IsHeading(ReportLines, a)


(***************************************************************************)
(* C17.  The documents are only read.                                      *)
(***************************************************************************)
\* C17: no step of a run adds, removes, renames or rewrites a document
C17_DocumentsUnchanged == [][files' = files]_vars

C17_Witness ==
    /\ phase = "done"
    /\ runs = 1
    /\ Len(files) = 2
    /\ HasBackslash(files[1].name)
    /\ Len(files[1].links) = 2
    /\ Len(doneCalls) = 2
    /\ doneCalls[1] # Null


(***************************************************************************)
(* C18.  The scheme of a link decides what checks it.                      *)
(***************************************************************************)
ProtocolOf(i) == urlParse(LinkOf(i)).protocol

HttpProtocols == {<<"h", "t", "t", "p", ":">>, <<"h", "t", "t", "p", "s",
      ":">>}

\* C18: an occurrence without a scheme ends with the local resolver's
\* verdict, an occurrence with a scheme outside the validator table ends
\* with null, and only http: and https: occurrences (and cache entries)
\* ever have a request, a retry timer or a request that failed to start
C18_SchemeDecidesCheck ==
    /\ \A i \in DOMAIN task :
           /\ ProtocolOf(i) \notin HttpProtocols =>
                  /\ task[i].st \in {"waiting", "done"}
                  /\ task[i].reqs = 0
                  /\ task[i].attempt = 0
           /\ ProtocolOf(i) = Undefined /\ task[i].st = "done" =>
                  task[i].result =
                      IF validLocal(normalizedFilenames(files),
                                    filenamesAndLinks[i].filename, LinkOf(i))
                      THEN Null ELSE <<"n", "o", "t", " ", "f", "o", "u",
                            "n", "d">>
           /\ ProtocolOf(i) # Undefined /\ ProtocolOf(i) \notin ProtocolValidators
              /\ task[i].st = "done" =>
                  task[i].result = Null
    /\ \A link \in DOMAIN validUrlCache :
           urlParse(link).protocol \in HttpProtocols

C18_Witness ==
    /\ \E i \in DOMAIN task :
           LinkOf(i) = OtherSchemeLink /\ task[i].st = "done"
    /\ \E i \in DOMAIN task :
           LinkOf(i) = FragmentLink /\ task[i].st = "done"
    /\ \E i \in DOMAIN task :
           LinkOf(i) = RemoteLink /\ task[i].st = "request"


(***************************************************************************)
(* C19.  The requests of one occurrence follow one another.                *)
(***************************************************************************)
\* C19: after every step an occurrence has at most one request in flight,
\* and has one exactly while it waits for a response; a step that issues a
\* request for an occurrence finds it with no request in flight, or handles
\* the response or error of its HEAD request and issues the GET fallback
C19_OneRequestAtATime ==
    [][\A i \in DOMAIN task' :
           /\ task'[i].reqs \in {0, 1}
           /\ task'[i].reqs = 1 <=> task'[i].st = "request"
           /\ NewRequest(i) =>
                  \/ i \notin DOMAIN task
                  \/ task[i].reqs = 0
                  \/ /\ task[i].st = "request"
                     /\ task[i].reqs = 1
                     /\ task[i].method = "HEAD"
                     /\ task'[i].method = "GET"
                     /\ task'[i].attempt = task[i].attempt]_vars

C19_Witness ==
    \E i \in DOMAIN task :
        /\ task[i].st = "request"
        /\ task[i].reqs = 1
        /\ task[i].method = "GET"
        /\ task[i].attempt = 3
        /\ Len(task[i].delays) = 2


(***************************************************************************)
(* C20.  What is written to validUrlCache.                                 *)
(***************************************************************************)
\* a step writes value to the cache entry of link (a write of the value the
\* entry already holds leaves no trace)
Written(link, value) ==
    /\ link \in DOMAIN validUrlCache'
    /\ validUrlCache'[link] = value
    /\ link \notin DOMAIN validUrlCache \/ validUrlCache[link] # value

\* the step ends the validation of an occurrence of link with value
EndsValidation(i, link, value) ==
    /\ i \in DOMAIN task
    /\ LinkOf(i) = link
    /\ task[i].st = "request"
    /\ task'[i] = DoneTask(value, 1)

\* C20: every value written to the cache is the outcome that ends the
\* validation of an occurrence of that URL in the same step: null, or a
\* failure string of an occurrence whose retries are exhausted
C20_WritesAreTerminal ==
    [][\A link \in DOMAIN validUrlCache' : \A value \in {validUrlCache'[link]} :
          Written(link, value) =>
              \E i \in Occ :
                  /\ EndsValidation(i, link, value)
                  /\ \/ value = Null
                     \/ /\ value \in FailureTexts
                        /\ task[i].attempt > options.attempts]_vars

\* the same with the failure strings that cacheAndCallback retries: a
\* failure with an empty text is written with retries left
C20_WritesExceptEmptyText ==
    [][\A link \in DOMAIN validUrlCache' : \A value \in {validUrlCache'[link]} :
          Written(link, value) =>
              \E i \in Occ :
                  /\ EndsValidation(i, link, value)
                  /\ \/ value = Null
                     \/ /\ value \in FailureTexts
                        /\ Truthy(value) => task[i].attempt > options.attempts]_vars


(***************************************************************************)
(* C21.  The calls of done() of a run that reaches the final callback.     *)
(***************************************************************************)
\* C21: a run that has reached the final callback has called done() once,
\* with the report when an occurrence is broken and with no argument when
\* none is
C21_DoneCalledOnce ==
    phase = "done" =>
        /\ Len(doneCalls) = 1
        /\ IF Broken # {}
           THEN /\ doneCalls[1] # Undefined
                /\ StartsWith(doneCalls[1], <<"B", "r", "o", "k", "e", "n",
                      " ", "l", "i", "n", "k", "s", " ", "f", "o", "u", "n",
                            "d", ":">>)
           ELSE doneCalls[1] = Undefined

\* the first call of done() is as claimed; a second call with no argument
\* follows the call with the report
C21_FirstCallOfDone ==
    phase = "done" =>
        /\ Len(doneCalls) = (IF Broken # {} THEN 2 ELSE 1)
        /\ IF Broken # {}
           THEN /\ doneCalls[1] # Undefined
                /\ StartsWith(doneCalls[1], <<"B", "r", "o", "k", "e", "n",
                      " ", "l", "i", "n", "k", "s", " ", "f", "o", "u", "n",
                            "d", ":">>)
                /\ doneCalls[2] = Undefined
           ELSE doneCalls[1] = Undefined


(***************************************************************************)
(* The program on one document with a facetime: link and the               *)
(* facetime-audio: link of the same remainder.                             *)
(***************************************************************************)
FacetimePieces == {<<"1">>, <<"+">>, <<".">>, <<"-">>, <<"a">>, <<"@">>, <<" ">>, <<"b", ".", "c">>}

FacetimeInit ==
    \E r \in Texts(FacetimePieces) :
        OneRunInit(<<[name |-> FileA,
                      links |-> <<<<"f", "a", "c", "e", "t", "i", "m", "e",
                            ":">> \o r, <<"f", "a", "c", "e", "t", "i", "m",
                                  "e", "-", "a", "u", "d", "i", "o",
                                        ":">> \o r>>]>>)

FacetimeSpec == FacetimeInit /\ [][Run]_vars

(***************************************************************************)
(* C22.  The results of facetime-audio: links.                             *)
(***************************************************************************)
\* the result of the occurrence of link
ResultOf(link) == task[CHOOSE i \in DOMAIN task : LinkOf(i) = link].result

\* the remainder of the two links of the document
TheRemainder == AfterScheme(files[1].links[1])

BothValidated == phase = "done" /\ Len(task) = 2

\* C22: the facetime-audio: link gets the result of the facetime: link of
\* the same remainder
C22_AudioAsFacetime ==
    BothValidated =>
        ResultOf(<<"f", "a", "c", "e", "t", "i", "m", "e", "-", "a", "u",
              "d", "i", "o", ":">> \o TheRemainder)
            = ResultOf(<<"f", "a", "c", "e", "t", "i", "m", "e",
                  ":">> \o TheRemainder)

\* the facetime: link is valid when its remainder is empty, a phone number
\* or an address, and no facetime-audio: link is valid: the patterns of
\* validFacetime begin with "facetime:"
C22_AudioNeverValid ==
    BothValidated =>
        LET r == TheRemainder
            phone == /\ r # <<>>
                     /\ \A k \in 1..Len(r) : r[k] \in PhoneChars
                     /\ \E k \in 1..Len(r) : r[k] \in Digits
            address == IndexOf(r, "@") >= 2 /\ Len(r) > IndexOf(r, "@")
        IN  /\ ResultOf(<<"f", "a", "c", "e", "t", "i", "m", "e",
              ":">> \o r) = Null <=> r = <<>> \/ phone \/ address
            /\ ResultOf(<<"f", "a", "c", "e", "t", "i", "m", "e", "-", "a",
                  "u", "d", "i", "o", ":">> \o r) \in
                   {<<"i", "n", "v", "a", "l", "i", "d">>, <<"i", "n", "v",
                         "a", "l", "i", "d", " ", "e", "m", "a", "i", "l",
                               " ", "a", "d", "d", "r", "e", "s",
                                     "s">>, <<"c", "o", "n", "t", "a", "i",
                                           "n", "s", " ", "a", " ", "s",
                                                 "p", "a", "c", "e">>,
                    <<"i", "n", "v", "a", "l", "i", "d", " ", "p", "h", "o",
                          "n", "e", " ", "n", "u", "m", "b", "e", "r">>}

====
